---- MODULE Spec2Model ----
(***************************************************************************)
(* Model of the propagation driver and adaptive Runge-Kutta stepper of     *)
(* nyx (src/propagators/instance.rs), of the trajectory builder that       *)
(* buckets the emitted states, and of the B-Plane targeter                 *)
(* (src/celestia/bplane.rs).                                               *)
(*                                                                         *)
(* Time is counted in ticks, the unit of Duration and Epoch (one           *)
(* nanosecond).  The f64 seconds used inside derive() are fixed-point      *)
(* numbers with SubTick units per tick; converting them back to a Duration *)
(* truncates toward zero.                                                  *)
(***************************************************************************)
EXTENDS Integers, Sequences, FiniteSets, TLC

-----------------------------------------------------------------------------
(* Bounds of the model *)

\* largest |duration| a call is given, in ticks
MaxDur == 6
\* largest step size stored in the instance before the call, in ticks
MaxInitStep == 3
\* the epoch of a state stays within -MaxEpoch .. MaxEpoch
MaxEpoch == 8
\* the histories and the channel keep the first MaxEmit states of a propagation
MaxEmit == 9
\* resolution of an f64 number of seconds: units per tick
SubTick == 10

-----------------------------------------------------------------------------
(* Configuration of the propagator: PropOpts and the RK method *)

\* opts.tolerance
tolerance == 8
\* opts.min_step, in ticks
min_step == 1
\* opts.max_step, in ticks
max_step == 4
\* opts.attempts
max_attempts == 3
\* prop.order
order == 2
\* values E::estimate returns: below, just below, equal to and above the tolerance
ErrSet == {2, 7, 8, 9}
\* Unit::Nanosecond, in ticks
Nanosecond == 1

-----------------------------------------------------------------------------
(* Arithmetic *)

Abs(x) == IF x < 0 THEN -x ELSE x

\* integer division truncating toward zero, as an `as i64` cast does
TruncDiv(a, b) == IF a >= 0 THEN a \div b ELSE -((-a) \div b)

RECURSIVE Pow(_, _)
Pow(b, n) == IF n = 0 THEN 1 ELSE b * Pow(b, n - 1)

\* floor of the n-th root of x
NthRoot(x, n) == CHOOSE r \in 0..x : Pow(r, n) <= x /\ Pow(r + 1, n) > x

\* Duration::to_seconds: a Duration as f64 seconds
ToSeconds(d) == d * SubTick

\* f64 * Unit::Second: f64 seconds as a Duration
ToDuration(s) == TruncDiv(s, SubTick)

\* (tolerance / error).powf(1.0 / n), in units of 1/SubTick
TolRatio(err, n) == NthRoot((tolerance * Pow(SubTick, n)) \div err, n)

\* 0.9 * step_size * (tolerance / error).powf(1.0 / n)
ProposedStep(hh, err, n) == TruncDiv(9 * hh * TolRatio(err, n), 10 * SubTick)

-----------------------------------------------------------------------------
VARIABLES
  state,            \* self.state: [epoch, fin]; fin = it is the output of dynamics.finally
  step_size,        \* self.step_size, in ticks
  fixed_step,       \* self.fixed_step
  details,          \* self.details: [step, error, attempts]
  pc,               \* position of the driver: "idle", "loop", "derive", "done"
  api,              \* the method called: "for_duration", "with_channel", "with_traj"
  duration,         \* the argument of the call
  stop_time,        \* local of for_duration_channel_option
  backprop,         \* local of for_duration_channel_option
  final,            \* the step being derived is the final exact-remainder step
  prev_step_size,   \* local of for_duration_channel_option
  prev_step_kind,   \* local of for_duration_channel_option
  h,                \* local step_size of derive, f64 seconds
  has_chan,         \* maybe_tx_chan is Some
  rx_alive,         \* the receiver of the channel has not been dropped
  chan,             \* the states sent on the channel and not yet received
  result,           \* what the driver returned: "none", "Ok", "Err"
  dyn_fails,        \* the dynamics (eom, finally) may fail
  accepted,         \* history: the post-step states of the steps that returned Ok
  sent,             \* history: the states delivered to the channel
  finalize_calls,   \* history: number of successful calls of dynamics.finally
  step_calls,       \* history: number of calls of single_step
  entry,            \* history: state, step_size, fixed_step and details at the call
  reg_stored,       \* history: step_size on entry to the loop / after the last regular step
  last_adaptive,    \* history: the last step that returned Ok was adaptive
  rejected,         \* history: the trials rejected within this call of derive
  before_step,      \* history: state, step_size, fixed_step, details.error and
                    \* the states sent, when single_step was called
  eom_failed,       \* history: dynamics.eom failed in a trial
  trial_err,        \* history: the error estimate of the latest adaptive trial
  tpc,              \* position of for_duration_with_traj: "off", "prop1", "recv1",
                    \* "prop2", "recv2", "tail", "done", "err"
  start_state,      \* local of for_duration_with_traj
  end_state,        \* local of for_duration_with_traj
  window_states,    \* local of for_duration_with_traj
  buckets,          \* the buckets sent on tx_bucket, in order
  traj_entry,       \* history: step_size and fixed_step when the public method
                    \* was called
  rpc,              \* position of the reduce stage: "off", "fit", "assemble", "Ok", "Err"
  bad_fits,         \* the buckets (by index) that interpolate() fails on
  splines,          \* the results of interpolate, in the order collected
  segments,         \* traj.segments, in key order
  trigger,          \* the argument trigger of until_nth_event
  events,           \* local of until_nth_event: what traj.find_all returned
  ev_result,        \* what until_nth_event returned: "none", "Ok", "Err" (the
                    \* error of for_duration_with_traj), "UnsufficientTriggers"
  ev_state,         \* the event state returned with Ok
  ev_error,         \* the fields of the UnsufficientTriggers returned
  bp_pc,            \* position of achieve_b_plane: "idle", "loop", "endkind", "done"
  target,           \* the BPlaneTarget, target.ltof_s mutable
  orbit_bplane,     \* what BPlane::new gives for the orbit passed to achieve_b_plane
  search_kind,      \* local of achieve_b_plane
  cur_search,       \* the variable of the for loop
  attempt_no,       \* local of the for loop's body
  total_dv,         \* local of the for loop's body
  real_orbit,       \* velocity of real_orbit minus the velocity of orbit
  ltof_s,           \* local of the for loop's body
  prev_b_plane_err, \* local of the for loop's body, squared
  min_total_dv,     \* local of achieve_b_plane
  min_ltof_s,       \* local of achieve_b_plane
  bp_result,        \* what achieve_b_plane returned: "none", "Ok" or the error
  converged,        \* history: the inner loop of this kind ended by the convergence test
  min_kind,         \* history: the kind whose total_dv is min_total_dv, -1 if none
  min_converged,    \* history: that kind had converged
  kinds_tried,      \* history: the kinds attempted, in order
  given_target,     \* history: the target as passed to achieve_b_plane
  abandoned,        \* history: the kinds left by break without convergence
  b_plane_err,      \* history: the squared norm of the latest 3x3 residual of
                    \* the kind (-1 before the first)
  finished,         \* history: for every kind whose inner loop was left by
                    \* break, in order: [kind, total_dv]
  orbit_real,       \* the argument of BPlane::new: [ecc, frame, dt]
  new_result,       \* what BPlane::new returned
  partials,         \* the partials of self.b_t, self.b_r and self.ltof_s with
                    \* respect to (vx, vy, vz): the parts [4], [5], [6]
  jac_result,       \* what jacobian or jacobian2 returned
  jac_dv            \* the delta-v computed from it: jacobian * b_plane_err

vars == <<state, step_size, fixed_step, details, pc, api, duration, stop_time,
          backprop, final, prev_step_size, prev_step_kind, h, has_chan,
          rx_alive, chan, result, dyn_fails, accepted, sent, finalize_calls,
          step_calls, entry, reg_stored, last_adaptive, rejected, before_step,
          eom_failed, trial_err, tpc, start_state,
          end_state, window_states, buckets, traj_entry, rpc, bad_fits,
          splines, segments,
          trigger, events, ev_result, ev_state, ev_error,
          bp_pc, target, orbit_bplane,
          search_kind, cur_search, attempt_no, total_dv, real_orbit, ltof_s,
          prev_b_plane_err, min_total_dv, min_ltof_s, bp_result, converged,
          min_kind, min_converged, kinds_tried, given_target, abandoned,
          b_plane_err, finished, orbit_real, new_result, partials,
          jac_result, jac_dv>>

prop_vars == <<state, step_size, fixed_step, details, pc, api, duration,
               stop_time, backprop, final, prev_step_size, prev_step_kind, h,
               has_chan, rx_alive, chan, result, dyn_fails, accepted, sent,
               finalize_calls, step_calls, entry, reg_stored, last_adaptive,
               rejected, before_step, eom_failed, trial_err,
               tpc, start_state, end_state, window_states, buckets,
               traj_entry, rpc,
               bad_fits, splines, segments, trigger, events, ev_result,
               ev_state, ev_error>>

bp_vars == <<bp_pc, target, orbit_bplane, search_kind, cur_search, attempt_no,
             total_dv, real_orbit, ltof_s, prev_b_plane_err, min_total_dv,
             min_ltof_s, bp_result, converged, min_kind, min_converged,
             kinds_tried, given_target, abandoned, b_plane_err, finished,
             orbit_real, new_result, partials, jac_result, jac_dv>>

targeter_vars == <<bp_pc, target, orbit_bplane, search_kind, cur_search,
                   attempt_no, total_dv, real_orbit, ltof_s, prev_b_plane_err,
                   min_total_dv, min_ltof_s, bp_result, converged, min_kind,
                   min_converged, kinds_tried, given_target, abandoned,
                   b_plane_err, finished>>
new_vars == <<orbit_real, new_result>>
jac_vars == <<partials, jac_result, jac_dv>>

drv_locals == <<stop_time, backprop, final, prev_step_size, prev_step_kind, h>>
traj_vars == <<tpc, start_state, end_state, window_states, buckets>>
reduce_vars == <<rpc, bad_fits, splines, segments>>
step_hist == <<rejected, before_step, eom_failed, trial_err>>
event_vars == <<trigger, events, ev_result, ev_state, ev_error>>

\* outcomes of a call into the dynamics: TRUE = Ok
DynOutcomes == IF dyn_fails THEN {TRUE, FALSE} ELSE {TRUE}

-----------------------------------------------------------------------------
(* The propagation driver *)

\* variant: no early return on a zero duration
IsZeroDurationOmitted(dur) == FALSE

\* duration == 0 * Unit::Second
IsZeroDuration(dur) == dur = 0

\* let backprop = duration < Unit::Nanosecond
IsBackprop(dur) == dur < Nanosecond

\* the loop's test: the stored step would cross the stop epoch
WouldCross(bp, dt, ss, stop) ==
  \/ ~bp /\ dt + ss > stop
  \/ bp /\ dt + ss <= stop

\* variant: the remainder taken with the wrong sign
FinalStepSizeSwapped(stop, dt) == dt - stop

\* self.set_step(stop_time - dt, true): the step of the final call of single_step
FinalStepSize(stop, dt) == stop - dt

\* variant: the sign is not restored after a backward propagation
RestoredStepNoSign(prev, bp) == prev

\* self.set_step(prev_step_size, prev_step_kind) and the sign restored after backprop
RestoredStep(prev, bp) == IF bp THEN -prev ELSE prev

\* a sequence of states with one more state, a counter with one more call
Record(hist, s) == IF Len(hist) < MaxEmit THEN Append(hist, s) ELSE hist

Count(n) == IF n < MaxEmit THEN n + 1 ELSE n

\* chan.send(self.state) when a channel was given; a dropped receiver only warns
Send(c, s) == IF has_chan /\ rx_alive THEN Record(c, s) ELSE c

\* variant: a failed send is returned as an error
SendFailureAborts(given, alive) == given /\ ~alive

\* if let Err(e) = chan.send(self.state) { warn!(..) }: a failed send is only
\* logged, the driver goes on
AbortsOnSendError(given, alive) == FALSE

\* variant: the state after the final step is not published
PublishFinalDropped(c, s) == c

\* the publication after the final step
PublishFinal(c, s) == Send(c, s)

\* the publication after a regular step
PublishRegular(c, s) == Send(c, s)

\* variant: the hook leaves no mark on the state
FinallySkipped(st) == st

\* self.prop.dynamics.finally(self.state) when it returns Ok
Finally(st) == [st EXCEPT !.fin = TRUE]

\* for_duration_channel_option up to the loop, called on state st with
\* stored step ss
ForDurationEntry(dur, st, ss) ==
  /\ duration' = dur
  /\ IF IsZeroDuration(dur)
       THEN /\ pc' = "done"
            /\ result' = "Ok"
            /\ state' = st
            /\ step_size' = ss
            /\ finalize_calls' = 0
            /\ UNCHANGED <<stop_time, backprop, reg_stored>>
       ELSE /\ stop_time' = st.epoch + dur
            /\ \E ok \in DynOutcomes :
                 IF ok
                   THEN /\ state' = Finally(st)
                        /\ finalize_calls' = 1
                        /\ backprop' = IsBackprop(dur)
                        /\ step_size' = IF IsBackprop(dur) THEN -ss ELSE ss
                        /\ reg_stored' = step_size'
                        /\ pc' = "loop"
                        /\ result' = "none"
                   ELSE /\ state' = st
                        /\ step_size' = ss
                        /\ pc' = "done"
                        /\ result' = "Err"
                        /\ finalize_calls' = 0
                        /\ UNCHANGED <<backprop, reg_stored>>

\* derive(): self.details.attempts = 1; step_size = self.step_size.to_seconds()
BeginDerive(ss, fixed) ==
  /\ details' = [details EXCEPT !.attempts = 1]
  /\ h' = ToSeconds(ss)
  /\ rejected' = 0
  /\ before_step' = [state |-> state, step_size |-> ss, fixed_step |-> fixed,
                      error |-> details.error, sent |-> sent]
  /\ step_calls' = Count(step_calls)
  /\ pc' = "derive"

\* one pass of the loop of for_duration_channel_option, up to the call of
\* single_step
Loop ==
  /\ pc = "loop"
  /\ LET dt == state.epoch IN
       IF WouldCross(backprop, dt, step_size, stop_time)
         THEN IF stop_time = dt
                THEN /\ pc' = "done"
                     /\ result' = "Ok"
                     /\ UNCHANGED <<state, step_size, fixed_step, details,
                                    step_calls, drv_locals, rejected,
                                    before_step>>
                ELSE /\ prev_step_size' = step_size
                     /\ prev_step_kind' = fixed_step
                     /\ step_size' = FinalStepSize(stop_time, dt)
                     /\ fixed_step' = TRUE
                     /\ final' = TRUE
                     /\ BeginDerive(step_size', TRUE)
                     /\ UNCHANGED <<state, result, stop_time, backprop>>
         ELSE /\ Abs(dt + step_size) <= MaxEpoch
              /\ final' = FALSE
              /\ BeginDerive(step_size, fixed_step)
              /\ UNCHANGED <<state, step_size, fixed_step, result, stop_time,
                             backprop, prev_step_size, prev_step_kind>>
  /\ UNCHANGED <<api, duration, has_chan, rx_alive, chan, dyn_fails, accepted,
                 sent, finalize_calls, entry, reg_stored, last_adaptive,
                 eom_failed, trial_err, traj_vars>>
  /\ UNCHANGED reduce_vars
  /\ UNCHANGED event_vars
  /\ UNCHANGED traj_entry
  /\ UNCHANGED bp_vars

\* variant: the retry budget does not end the retries
AcceptTrialNoBudget(err, hh, att) ==
  \/ err <= tolerance
  \/ hh <= ToSeconds(min_step)

\* the acceptance test of an adaptive trial
AcceptTrial(err, hh, att) ==
  \/ err <= tolerance
  \/ hh <= ToSeconds(min_step)
  \/ att >= max_attempts

\* the step size for the next call, after an accepted trial
NextStep(hh, err) ==
  IF err < tolerance
    THEN LET proposed == ProposedStep(hh, err, order) IN
           IF proposed > ToSeconds(max_step) THEN ToSeconds(max_step)
                                              ELSE proposed
    ELSE hh

\* variant: a rejected trial is repeated with the same step
RetryStepUnchanged(hh, err) == hh

\* the step size of the next trial, after a rejected trial
RetryStep(hh, err) ==
  LET proposed == ProposedStep(hh, err, order - 1) IN
    IF proposed < ToSeconds(min_step) THEN ToSeconds(min_step) ELSE proposed

\* the rest of single_step after derive() returned Ok((t, _)) with details ds
\* and stored step ss, and the rest of the loop body after single_step
Accept(t, ds, ss, adaptive) ==
  /\ details' = ds
  /\ UNCHANGED <<h, stop_time, backprop, final, prev_step_size, prev_step_kind,
                 step_calls>>
  /\ \E ok \in DynOutcomes :
       LET set == [epoch |-> state.epoch + t, fin |-> FALSE] IN
         IF ~ok
           THEN /\ state' = set
                /\ step_size' = ss
                /\ pc' = "done"
                /\ result' = "Err"
                /\ UNCHANGED <<fixed_step, chan, accepted, sent, finalize_calls,
                               reg_stored, last_adaptive>>
           ELSE /\ state' = Finally(set)
                /\ finalize_calls' = Count(finalize_calls)
                /\ accepted' = Record(accepted, state')
                /\ last_adaptive' = adaptive
                /\ chan' = IF final THEN PublishFinal(chan, state')
                                     ELSE PublishRegular(chan, state')
                /\ sent' = IF final THEN PublishFinal(sent, state')
                                     ELSE PublishRegular(sent, state')
                /\ IF AbortsOnSendError(has_chan, rx_alive)
                     THEN /\ step_size' = ss
                          /\ pc' = "done"
                          /\ result' = "Err"
                          /\ UNCHANGED <<fixed_step, reg_stored>>
                     ELSE IF final
                       THEN /\ step_size' = RestoredStep(prev_step_size,
                                                         backprop)
                            /\ fixed_step' = prev_step_kind
                            /\ pc' = "done"
                            /\ result' = "Ok"
                            /\ UNCHANGED reg_stored
                       ELSE /\ step_size' = ss
                            /\ reg_stored' = ss
                            /\ pc' = "loop"
                            /\ UNCHANGED <<fixed_step, result>>

\* variant: the driver goes on after a step that failed
StepErrorIgnored(failed) == FALSE

\* self.single_step()?: the driver returns the error of a failed step
PropagatesStepError(failed) == failed

\* variant: a fixed step clears the error of the details
FixedDetailsErrorCleared(ds, ss) == [ds EXCEPT !.step = ss, !.error = 0]

\* the details after a fixed step: self.details.step = self.step_size
FixedDetails(ds, ss) == [ds EXCEPT !.step = ss]

\* one pass of the loop of derive(): the stages are evaluated (eom may fail),
\* then the trial is accepted or rejected
Trial ==
  /\ pc = "derive"
  /\ UNCHANGED <<api, duration, has_chan, rx_alive, dyn_fails, entry, traj_vars,
                 before_step>>
  /\ UNCHANGED reduce_vars
  /\ UNCHANGED event_vars
  /\ UNCHANGED traj_entry
  /\ UNCHANGED bp_vars
  /\ \E eom_ok \in DynOutcomes, err \in ErrSet :
       IF ~eom_ok
         THEN /\ IF PropagatesStepError(TRUE)
                   THEN pc' = "done" /\ result' = "Err"
                   ELSE pc' = "loop" /\ UNCHANGED result
              /\ eom_failed' = TRUE
              /\ UNCHANGED <<rejected, trial_err>>
              /\ UNCHANGED <<state, step_size, fixed_step, details, drv_locals,
                             chan, accepted, sent, finalize_calls, step_calls,
                             reg_stored, last_adaptive>>
         ELSE IF fixed_step
           THEN /\ Accept(step_size, FixedDetails(details, step_size),
                          step_size, FALSE)
                /\ UNCHANGED <<rejected, eom_failed, trial_err>>
           ELSE IF AcceptTrial(err, h, details.attempts)
             THEN /\ Accept(ToDuration(h),
                            [details EXCEPT !.error = err,
                                            !.step = ToDuration(h)],
                            ToDuration(NextStep(h, err)), TRUE)
                  /\ trial_err' = err
                  /\ UNCHANGED <<rejected, eom_failed>>
             ELSE /\ details' = [details EXCEPT !.error = err,
                                                !.attempts = @ + 1]
                  /\ rejected' = rejected + 1
                  /\ trial_err' = err
                  /\ UNCHANGED eom_failed
                  /\ h' = RetryStep(h, err)
                  /\ UNCHANGED <<state, step_size, fixed_step, pc, result,
                                 stop_time, backprop, final, prev_step_size,
                                 prev_step_kind, chan, accepted, sent,
                                 finalize_calls, step_calls, reg_stored,
                                 last_adaptive>>

-----------------------------------------------------------------------------
(* The trajectory builder: for_duration_with_traj *)

\* INTERPOLATION_SAMPLES
items_per_segments == 3

Min(a, b) == IF a < b THEN a ELSE b

\* the window after a state was pushed: at 2 * items_per_segments states the
\* first items_per_segments are published and items_per_segments - 1 removed
PublishedBucket(w) == SubSeq(w, 1, items_per_segments)

TrimmedWindow(w) == SubSeq(w, items_per_segments, Len(w))

\* (end_state.epoch() - start_state.epoch()) / ((items_per_segments - 1) as f64)
FallbackStep(span) == TruncDiv(span, items_per_segments - 1)

\* variant: the closing loop sends the first bucket only
TailBucketsFirstOnly(w) == <<SubSeq(w, 1, Min(items_per_segments, Len(w)))>>

\* the buckets the closing loop sends from the remaining window
TailBuckets(w) ==
  LET first == SubSeq(w, 1, Min(items_per_segments, Len(w)))
      start_idx == Len(w) - items_per_segments
  IN IF Len(w) < items_per_segments \/ start_idx = 0
       THEN <<first>>
       ELSE <<first, SubSeq(w, start_idx + 1,
                            Min(start_idx + items_per_segments, Len(w)))>>

\* a public method is called on the instance
Call ==
  /\ pc = "idle"
  /\ \E dur \in -MaxDur..MaxDur,
        m \in {"for_duration", "with_channel", "with_traj"},
        alive \in BOOLEAN :
       /\ m # "with_channel" => alive
       /\ api' = m
       /\ has_chan' = (m # "for_duration")
       /\ rx_alive' = alive
       /\ entry' = [state |-> state, step_size |-> step_size,
                    fixed_step |-> fixed_step, details |-> details]
       /\ tpc' = IF m = "with_traj" THEN "prop1" ELSE "off"
       /\ traj_entry' = [step_size |-> step_size, fixed_step |-> fixed_step]
       /\ start_state' = state
       /\ ForDurationEntry(dur, state, step_size)
  /\ UNCHANGED <<fixed_step, details, final, prev_step_size, prev_step_kind, h,
                 chan, dyn_fails, accepted, sent, step_calls, last_adaptive,
                 end_state, window_states, buckets>>
  /\ UNCHANGED reduce_vars
  /\ UNCHANGED step_hist
  /\ UNCHANGED event_vars
  /\ UNCHANGED bp_vars

\* for_duration_with_channel returned to for_duration_with_traj
TrajCollect ==
  /\ api = "with_traj"
  /\ pc = "done"
  /\ tpc \in {"prop1", "prop2"}
  /\ IF result = "Err"
       THEN /\ tpc' = "err"
            /\ UNCHANGED <<end_state, window_states>>
       ELSE /\ tpc' = IF tpc = "prop1" THEN "recv1" ELSE "recv2"
            /\ end_state' = IF tpc = "prop1" THEN state ELSE end_state
            /\ window_states' = <<start_state>>
  /\ UNCHANGED <<state, step_size, fixed_step, details, pc, api, duration,
                 drv_locals, has_chan, rx_alive, chan, result, dyn_fails,
                 accepted, sent, finalize_calls, step_calls, entry, reg_stored,
                 last_adaptive, start_state, buckets>>
  /\ UNCHANGED reduce_vars
  /\ UNCHANGED step_hist
  /\ UNCHANGED event_vars
  /\ UNCHANGED traj_entry
  /\ UNCHANGED bp_vars

\* rx.recv() returned a state
Recv ==
  /\ tpc \in {"recv1", "recv2"}
  /\ chan # <<>>
  /\ chan' = Tail(chan)
  /\ LET w == Append(window_states, Head(chan)) IN
       IF tpc = "recv1" /\ Len(w) = 2 * items_per_segments
         THEN /\ buckets' = Append(buckets, PublishedBucket(w))
              /\ window_states' = TrimmedWindow(w)
         ELSE /\ window_states' = w
              /\ UNCHANGED buckets
  /\ UNCHANGED <<state, step_size, fixed_step, details, pc, api, duration,
                 drv_locals, has_chan, rx_alive, result, dyn_fails, accepted,
                 sent, finalize_calls, step_calls, entry, reg_stored,
                 last_adaptive, tpc, start_state, end_state>>
  /\ UNCHANGED reduce_vars
  /\ UNCHANGED step_hist
  /\ UNCHANGED event_vars
  /\ UNCHANGED traj_entry
  /\ UNCHANGED bp_vars

\* rx.recv() returned Err: the sender is gone and the channel is empty
RecvClosed ==
  /\ tpc \in {"recv1", "recv2"}
  /\ chan = <<>>
  /\ IF tpc = "recv1" /\ Len(window_states) < items_per_segments
       THEN LET step == FallbackStep(end_state.epoch - start_state.epoch) IN
              /\ tpc' = "prop2"
              /\ window_states' = <<>>
              /\ fixed_step' = TRUE
              /\ accepted' = <<>>
              /\ sent' = <<>>
              /\ step_calls' = 0
              /\ entry' = [state |-> start_state, step_size |-> step,
                           fixed_step |-> TRUE, details |-> details]
              /\ ForDurationEntry(duration, start_state, step)
              /\ UNCHANGED <<details, final, prev_step_size, prev_step_kind, h>>
       ELSE /\ tpc' = "tail"
            /\ UNCHANGED <<state, step_size, fixed_step, details, pc, duration,
                           drv_locals, result, accepted, sent, finalize_calls,
                           step_calls, entry, reg_stored, window_states>>
  /\ UNCHANGED <<api, has_chan, rx_alive, chan, dyn_fails, last_adaptive,
                 start_state, end_state, buckets>>
  /\ UNCHANGED reduce_vars
  /\ UNCHANGED step_hist
  /\ UNCHANGED event_vars
  /\ UNCHANGED traj_entry
  /\ UNCHANGED bp_vars

\* the sets of buckets interpolate() can fail on: none, or one of them
BadFitSets(n) == {{}} \cup {{i} : i \in 1..n}

\* the closing loop: the remaining states are sent as one or two buckets
TailSend ==
  /\ tpc = "tail"
  /\ buckets' = buckets \o TailBuckets(window_states)
  /\ tpc' = "done"
  /\ rpc' = "fit"
  /\ bad_fits' \in BadFitSets(Len(buckets'))
  /\ UNCHANGED <<splines, segments>>
  /\ UNCHANGED <<state, step_size, fixed_step, details, pc, api, duration,
                 drv_locals, has_chan, rx_alive, chan, result, dyn_fails,
                 accepted, sent, finalize_calls, step_calls, entry, reg_stored,
                 last_adaptive, start_state, end_state, window_states>>
  /\ UNCHANGED step_hist
  /\ UNCHANGED event_vars
  /\ UNCHANGED traj_entry
  /\ UNCHANGED bp_vars

-----------------------------------------------------------------------------
(* The reduce stage of for_duration_with_traj: parallel interpolation and *)
(* assembly of the trajectory                                              *)

\* the orders in which n parallel workers can deliver their results
Orders(n) == {f \in [1..n -> 1..n] : \A i, j \in 1..n : i # j => f[i] # f[j]}

\* interpolate(bucket): the spline of the i-th bucket, or an error
Interpolate(i) ==
  [ok |-> i \notin bad_fits,
   bucket |-> i,
   start_epoch |-> Head(buckets[i]).epoch,
   end_epoch |-> buckets[i][Len(buckets[i])].epoch]

\* traj.append_spline(spline): the segment map is keyed by start epoch and
\* kept in key order
RECURSIVE AppendSpline(_, _)
AppendSpline(segs, spline) ==
  IF segs = <<>> THEN <<spline>>
  ELSE IF spline.start_epoch < Head(segs).start_epoch THEN <<spline>> \o segs
  ELSE IF spline.start_epoch = Head(segs).start_epoch
    THEN <<spline>> \o Tail(segs)
  ELSE <<Head(segs)>> \o AppendSpline(Tail(segs), spline)

\* variant: a failed fit is skipped
SkipFailedSpline(maybe_spline) == TRUE

\* let spline = maybe_spline?
SplineIsOk(maybe_spline) == maybe_spline.ok

\* for maybe_spline in splines { let spline = maybe_spline?;
\* traj.append_spline(spline)?; }
RECURSIVE AssembleFrom(_, _)
AssembleFrom(sps, segs) ==
  IF sps = <<>> THEN [result |-> "Ok", segments |-> segs]
  ELSE IF ~SplineIsOk(Head(sps)) THEN [result |-> "Err", segments |-> segs]
  ELSE AssembleFrom(Tail(sps), AppendSpline(segs, Head(sps)))

\* rx.into_iter().par_bridge().map(interpolate).collect(): the workers
\* deliver the splines of the buckets in any order
Collect ==
  /\ rpc = "fit"
  /\ \E perm \in Orders(Len(buckets)) :
       splines' = [k \in 1..Len(buckets) |-> Interpolate(perm[k])]
  /\ rpc' = "assemble"
  /\ UNCHANGED <<bad_fits, segments>>
  /\ UNCHANGED <<state, step_size, fixed_step, details, pc, api, duration,
                 drv_locals, has_chan, rx_alive, chan, result, dyn_fails,
                 accepted, sent, finalize_calls, step_calls, entry, reg_stored,
                 last_adaptive, traj_vars>>
  /\ UNCHANGED step_hist
  /\ UNCHANGED event_vars
  /\ UNCHANGED traj_entry
  /\ UNCHANGED bp_vars

\* the trajectory is built from the collected splines and
\* for_duration_with_traj returns
Assemble ==
  /\ rpc = "assemble"
  /\ LET built == AssembleFrom(splines, <<>>) IN
       /\ rpc' = built.result
       /\ segments' = built.segments
  /\ UNCHANGED <<bad_fits, splines>>
  /\ UNCHANGED <<state, step_size, fixed_step, details, pc, api, duration,
                 drv_locals, has_chan, rx_alive, chan, result, dyn_fails,
                 accepted, sent, finalize_calls, step_calls, entry, reg_stored,
                 last_adaptive, traj_vars>>
  /\ UNCHANGED step_hist
  /\ UNCHANGED event_vars
  /\ UNCHANGED traj_entry
  /\ UNCHANGED bp_vars

-----------------------------------------------------------------------------
(* The event search: until_nth_event *)

\* largest trigger passed to until_nth_event
MaxTrigger == 2

\* traj.find_all(event): the states of the trajectory where the event
\* changes sign, in the order of the scan; an event can be found at either
\* end of the trajectory
FindAll(first, last) ==
  {<<>>, <<[epoch |-> first]>>, <<[epoch |-> last]>>}
  \cup (IF first = last THEN {}
                        ELSE {<<[epoch |-> first], [epoch |-> last]>>})

\* variant: the first event is returned whatever the trigger
EventIndexFirst(n) == 1

\* events.get(trigger): the index is counted from zero
EventIndex(n) == n + 1

\* for_duration_with_traj returned to until_nth_event (until_event is the
\* call with trigger 0)
UntilNthEvent ==
  /\ api = "with_traj"
  /\ ev_result = "none"
  /\ tpc = "err" \/ rpc \in {"Ok", "Err"}
  /\ \E n \in 0..MaxTrigger :
       /\ trigger' = n
       /\ IF rpc # "Ok"
            THEN /\ ev_result' = "Err"
                 /\ UNCHANGED <<events, ev_state, ev_error>>
            ELSE \E evs \in FindAll(start_state.epoch, end_state.epoch) :
                   /\ events' = evs
                   /\ IF EventIndex(n) \in 1..Len(evs)
                        THEN /\ ev_result' = "Ok"
                             /\ ev_state' = evs[EventIndex(n)]
                             /\ UNCHANGED ev_error
                        ELSE /\ ev_result' = "UnsufficientTriggers"
                             /\ ev_error' = <<n, Len(evs)>>
                             /\ UNCHANGED ev_state
  /\ UNCHANGED <<state, step_size, fixed_step, details, pc, api, duration,
                 drv_locals, has_chan, rx_alive, chan, result, dyn_fails,
                 accepted, sent, finalize_calls, step_calls, entry, reg_stored,
                 last_adaptive, traj_vars>>
  /\ UNCHANGED reduce_vars
  /\ UNCHANGED step_hist
  /\ UNCHANGED traj_entry
  /\ UNCHANGED bp_vars

-----------------------------------------------------------------------------
(* The B-Plane targeter: achieve_b_plane *)

\* largest magnitude of a component of an accumulated delta-v
MaxDv == 2
\* std::f64::INFINITY
Infinity == 1000
\* let max_iter = 10
max_iter == 10
\* the default tolerance on B.T and B.R of from_targets and from_b_plane
TolB == 1
\* the LTOF tolerance of from_targets (6 hours)
TolLtofArmed == 2
\* the LTOF tolerance of from_b_plane (100 days)
TolLtofFree == 50

Zero3 == <<0, 0, 0>>

\* BPlaneTarget::from_targets
FromTargets(bt, br, ltof) ==
  [b_t_km |-> bt, b_r_km |-> br, ltof_s |-> ltof, tol_b_t_km |-> TolB,
   tol_b_r_km |-> TolB, tol_ltof_s |-> TolLtofArmed]

\* BPlaneTarget::from_b_plane
FromBPlane(bt, br) ==
  [b_t_km |-> bt, b_r_km |-> br, ltof_s |-> 0, tol_b_t_km |-> TolB,
   tol_b_r_km |-> TolB, tol_ltof_s |-> TolLtofFree]

\* the targets given to achieve_b_plane
Targets == {FromBPlane(2, 1), FromTargets(2, 1, 3)}

\* BPlaneTarget::ltof_target_set
LtofTargetSet(tgt) == Abs(tgt.ltof_s) > 0

\* what BPlane::new can return: an error when the orbit is not hyperbolic,
\* else the B-Plane (B.T, B.R and LTOF) of the orbit
BPlanes ==
  {[hyp |-> FALSE, b_t |-> 0, b_r |-> 0, ltof |-> 0]}
  \cup [hyp : {TRUE}, b_t : -4..2, b_r : {1}, ltof : {3, 5}]

\* BPlane::new(real_orbit): the orbit given to achieve_b_plane always has
\* the same B-Plane
BPlaneNew(dv) == IF dv = Zero3 THEN {orbit_bplane} ELSE BPlanes

\* f64 subtraction, with an infinite left operand
FSub(a, b) == IF a >= Infinity THEN Infinity ELSE a - b

\* the square of Vector3::norm
NormSq(v) ==
  IF \E i \in 1..3 : Abs(v[i]) >= Infinity THEN Infinity
  ELSE v[1] * v[1] + v[2] * v[2] + v[3] * v[3]

\* the convergence test of the inner loop
Converged(br_err, bt_err, ltof_err, tgt) ==
  /\ Abs(br_err) < tgt.tol_b_r_km
  /\ Abs(bt_err) < tgt.tol_b_t_km
  /\ Abs(ltof_err) < tgt.tol_ltof_s

\* the corrections jacobian() * b_plane_err can give for a residual that is
\* not zero: one step up or down in every component
Corrections3 == {<<1, 1, 1>>, <<-1, -1, -1>>}

\* the corrections jacobian2(param)? * b_plane_err can give for a residual
\* that is not zero: dv[0] and dv[1] differ, up or down
Corrections2 == {<<1, 2>>, <<-1, -2>>}

\* variant: the two corrections of a 2x2 kind go to the first two components
\* whatever the invariant
Apply2FirstTwo(kind, dv2) == <<dv2[1], dv2[2], 0>>

\* the match on param of a 2x2 kind: where dv[0] and dv[1] are added, as a
\* vector over (vx, vy, vz)
Apply2(kind, dv2) ==
  CASE kind = 0 -> <<0, dv2[1], dv2[2]>>
    [] kind = 1 -> <<dv2[1], 0, dv2[2]>>
    [] kind = 2 -> <<dv2[1], dv2[2], 0>>

\* the corrections of one pass of a kind, as a vector over (vx, vy, vz)
Corrections(kind) ==
  IF kind = 3 THEN Corrections3
  ELSE {Apply2(kind, dv2) : dv2 \in Corrections2}

Add3(a, b) == <<a[1] + b[1], a[2] + b[2], a[3] + b[3]>>

\* the locals of the body of the for loop
StartKind(kind) ==
  /\ cur_search' = kind
  /\ total_dv' = Zero3
  /\ attempt_no' = 0
  /\ real_orbit' = Zero3
  /\ ltof_s' = Infinity
  /\ prev_b_plane_err' = Infinity
  /\ converged' = FALSE
  /\ kinds_tried' = Append(kinds_tried, kind)
  /\ b_plane_err' = -1
  /\ bp_pc' = "loop"

\* variant: the search always starts with the first 2x2 kind
FirstKindAlwaysZero(tgt) == 0

\* the first search kind
FirstKind(tgt) == IF LtofTargetSet(tgt) THEN 3 ELSE 0

\* achieve_b_plane is called
Achieve ==
  /\ bp_pc = "idle"
  /\ \E tgt \in Targets, b \in BPlanes :
       /\ target' = tgt
       /\ given_target' = tgt
       /\ orbit_bplane' = b
       /\ search_kind' = FirstKind(tgt)
       /\ min_ltof_s' = tgt.ltof_s
       /\ StartKind(FirstKind(tgt))
  /\ min_total_dv' = <<Infinity, Infinity, Infinity>>
  /\ finished' = <<>>
  /\ UNCHANGED <<bp_result, min_kind, min_converged, abandoned>>
  /\ UNCHANGED prop_vars
  /\ UNCHANGED jac_vars
  /\ UNCHANGED new_vars

\* the inner loop is left by return
BPlaneReturn(res) ==
  /\ bp_pc' = "done"
  /\ bp_result' = res
  /\ UNCHANGED <<attempt_no, total_dv, real_orbit, ltof_s, prev_b_plane_err,
                 converged, abandoned>>

\* the inner loop is left by break
BPlaneBreak(conv, ltof) ==
  /\ bp_pc' = "endkind"
  /\ converged' = conv
  /\ abandoned' = IF conv THEN abandoned ELSE abandoned \cup {cur_search}
  /\ ltof_s' = ltof
  /\ UNCHANGED <<attempt_no, total_dv, real_orbit, prev_b_plane_err, bp_result>>

\* the correction dv is applied and the next pass begins
BPlaneCorrect(dv, err) ==
  /\ total_dv' = Add3(total_dv, dv)
  /\ real_orbit' = Add3(real_orbit, dv)
  /\ attempt_no' = attempt_no + 1
  /\ prev_b_plane_err' = err
  /\ UNCHANGED <<bp_pc, ltof_s, converged, bp_result, abandoned>>

\* the iteration cap is exceeded
IterationsExceeded(n) == n > max_iter

\* variant: a failed search is an error whatever the first kind was
SurfacesFailureAlways(first_kind) == TRUE

\* a failed search is an error only when the search began with the 3x3 kind
SurfacesFailure(first_kind) == first_kind = 3

\* one pass of the inner loop
Iterate ==
  /\ bp_pc = "loop"
  /\ UNCHANGED <<target, orbit_bplane, search_kind, cur_search, min_total_dv,
                 min_ltof_s, min_kind, min_converged, kinds_tried,
                 given_target, finished>>
  /\ UNCHANGED prop_vars
  /\ UNCHANGED jac_vars
  /\ UNCHANGED new_vars
  /\ IF IterationsExceeded(attempt_no)
       THEN /\ IF SurfacesFailure(search_kind)
                 THEN BPlaneReturn("MaxIterReached")
                 ELSE BPlaneBreak(FALSE, ltof_s)
            /\ UNCHANGED b_plane_err
       ELSE \E b_plane \in BPlaneNew(real_orbit) :
              IF ~b_plane.hyp
                THEN BPlaneReturn("NotHyperbolic") /\ UNCHANGED b_plane_err
                ELSE
                  LET br_err == target.b_r_km - b_plane.b_r
                      bt_err == target.b_t_km - b_plane.b_t
                      ltof_err == IF cur_search = 3
                                    THEN FSub(target.ltof_s, b_plane.ltof)
                                    ELSE 0
                      err == NormSq(<<bt_err, br_err, ltof_err>>)
                  IN /\ b_plane_err' = IF cur_search = 3 THEN err
                                                         ELSE b_plane_err
                     /\ IF Converged(br_err, bt_err, ltof_err, target)
                          THEN BPlaneBreak(TRUE, b_plane.ltof)
                          ELSE IF cur_search = 3 /\ err >= prev_b_plane_err
                            THEN IF SurfacesFailure(search_kind)
                                   THEN BPlaneReturn("CorrectionIneffective")
                                   ELSE BPlaneBreak(FALSE, ltof_s)
                            ELSE \E dv \in Corrections(cur_search) :
                                   /\ \A i \in 1..3 :
                                        Abs(total_dv[i] + dv[i]) <= MaxDv
                                   /\ BPlaneCorrect(dv,
                                        IF cur_search = 3
                                          THEN err
                                          ELSE prev_b_plane_err)

\* variant: a delta-v of equal norm also replaces the minimum
BeatsMinimumOrEqual(dv, min) == NormSq(dv) <= NormSq(min)

\* the test that replaces the minimum delta-v
BeatsMinimum(dv, min) == NormSq(dv) < NormSq(min)

\* the end of the body of the for loop, and the return after the last kind
EndKind ==
  /\ bp_pc = "endkind"
  /\ LET better == BeatsMinimum(total_dv, min_total_dv)
         new_ltof == IF better THEN ltof_s ELSE min_ltof_s
     IN /\ min_total_dv' = IF better THEN total_dv ELSE min_total_dv
        /\ min_ltof_s' = new_ltof
        /\ min_kind' = IF better THEN cur_search ELSE min_kind
        /\ min_converged' = IF better THEN converged ELSE min_converged
        /\ target' = IF cur_search = 2
                       THEN [target EXCEPT !.ltof_s = new_ltof]
                       ELSE target
  /\ IF cur_search = 3
       THEN /\ bp_pc' = "done"
            /\ bp_result' = "Ok"
            /\ UNCHANGED <<cur_search, attempt_no, total_dv, real_orbit, ltof_s,
                           prev_b_plane_err, converged, kinds_tried,
                           b_plane_err>>
       ELSE /\ StartKind(cur_search + 1)
            /\ UNCHANGED bp_result
  /\ finished' = Append(finished, [kind |-> cur_search, total_dv |-> total_dv])
  /\ UNCHANGED <<orbit_bplane, search_kind, given_target, abandoned>>
  /\ UNCHANGED prop_vars
  /\ UNCHANGED jac_vars
  /\ UNCHANGED new_vars

BPlaneInit ==
  /\ bp_pc = "idle"
  /\ target = FromBPlane(0, 0)
  /\ orbit_bplane = [hyp |-> FALSE, b_t |-> 0, b_r |-> 0, ltof |-> 0]
  /\ search_kind = 0
  /\ cur_search = 0
  /\ attempt_no = 0
  /\ total_dv = Zero3
  /\ real_orbit = Zero3
  /\ ltof_s = 0
  /\ prev_b_plane_err = 0
  /\ min_total_dv = Zero3
  /\ min_ltof_s = 0
  /\ bp_result = "none"
  /\ converged = FALSE
  /\ min_kind = -1
  /\ min_converged = FALSE
  /\ kinds_tried = <<>>
  /\ given_target = target
  /\ abandoned = {}
  /\ b_plane_err = -1
  /\ finished = <<>>

-----------------------------------------------------------------------------
(* The construction of a B-Plane: BPlane::new *)

\* eccentricities are counted in tenths: 1.0
EccOne == 10
\* largest eccentricity of an orbit given to BPlane::new, in tenths
MaxEcc == 20
\* latest epoch of an orbit given to BPlane::new
MaxOrbitEpoch == 2

Frames == {"EME2000", "Luna"}

\* the orbits given to BPlane::new
Orbits == [ecc : 0..MaxEcc, frame : Frames, dt : 0..MaxOrbitEpoch]

NoResult == [kind |-> "none"]

\* variant: a parabolic orbit is taken for a hyperbolic one
IsNotHyperbolicStrict(ecc) == ecc < EccOne

\* orbit_real.ecc() <= 1.0
IsNotHyperbolic(ecc) == ecc <= EccOne

\* BPlane::new(orbit_real): the error, or the B-Plane with the frame and
\* the epoch of the orbit
BPlaneOf(orbit) ==
  IF IsNotHyperbolic(orbit.ecc)
    THEN [kind |-> "Err", error |-> "NotHyperbolic"]
    ELSE [kind |-> "Ok", frame |-> orbit.frame, epoch |-> orbit.dt]

\* BPlane::new is called
NewBPlane ==
  /\ new_result = NoResult
  /\ new_result' = BPlaneOf(orbit_real)
  /\ UNCHANGED orbit_real
  /\ UNCHANGED targeter_vars
  /\ UNCHANGED prop_vars
  /\ UNCHANGED jac_vars

NewInit ==
  /\ orbit_real = [ecc |-> 0, frame |-> "EME2000", dt |-> 0]
  /\ new_result = NoResult

-----------------------------------------------------------------------------
(* The inverted Jacobians of a B-Plane: jacobian and jacobian2 *)

\* largest partial of a B-Plane component with respect to a velocity component
MaxPartial == 1

\* the velocity partials a B-Plane can hold
Partials ==
  [b_t : [1..3 -> 0..MaxPartial], b_r : [1..3 -> 0..MaxPartial],
   ltof_s : [1..3 -> 0..MaxPartial]]

\* the invariants jacobian2 can be called with
StateParameters == {"VX", "VY", "VZ", "X"}

\* Matrix3::new(b_t[4], b_t[5], b_t[6], b_r[4], .., ltof_s[6]), by rows
Matrix3(p) == <<p.b_t, p.b_r, p.ltof_s>>

\* the Matrix2::new of jacobian2, by rows: the columns of the two velocity
\* components other than the invariant
Matrix2(p, invariant) ==
  CASE invariant = "VX" -> <<<<p.b_t[2], p.b_t[3]>>, <<p.b_r[2], p.b_r[3]>>>>
    [] invariant = "VY" -> <<<<p.b_t[1], p.b_t[3]>>, <<p.b_r[1], p.b_r[3]>>>>
    [] invariant = "VZ" -> <<<<p.b_t[1], p.b_t[2]>>, <<p.b_r[1], p.b_r[2]>>>>

\* the rows, or columns, of a 3x3 matrix other than k
Others(k) == IF k = 1 THEN <<2, 3>> ELSE IF k = 2 THEN <<1, 3>> ELSE <<1, 2>>

Minor(m, r, c) ==
  LET rs == Others(r)
      cs == Others(c)
  IN m[rs[1]][cs[1]] * m[rs[2]][cs[2]] - m[rs[1]][cs[2]] * m[rs[2]][cs[1]]

\* the determinant of a 2x2 or 3x3 matrix
Det(m) ==
  IF Len(m) = 2
    THEN m[1][1] * m[2][2] - m[1][2] * m[2][1]
    ELSE m[1][1] * Minor(m, 1, 1) - m[1][2] * Minor(m, 1, 2)
           + m[1][3] * Minor(m, 1, 3)

\* the adjugate of a 2x2 or 3x3 matrix: the inverse is Adj(m) / Det(m)
Adj(m) ==
  IF Len(m) = 2
    THEN <<<<m[2][2], -m[1][2]>>, <<-m[2][1], m[1][1]>>>>
    ELSE [i \in 1..3 |->
            [j \in 1..3 |->
               (IF (i + j) % 2 = 0 THEN 1 ELSE -1) * Minor(m, j, i)]]

\* jac.try_inverse_mut(): the matrix after the call, as num / den, and the
\* boolean returned; a matrix that is not invertible is left untouched
TryInverseMut(m) ==
  IF Det(m) = 0
    THEN [inverted |-> FALSE, jac |-> [num |-> m, den |-> 1]]
    ELSE [inverted |-> TRUE, jac |-> [num |-> Adj(m), den |-> Det(m)]]

NoJac == [res |-> "none"]
NoDv == [res |-> "none"]

\* BPlane::jacobian: the boolean of try_inverse_mut is dropped
JacobianOf(p) ==
  [res |-> "Ok", call |-> "jacobian", of |-> Matrix3(p),
   jac |-> TryInverseMut(Matrix3(p)).jac]

\* BPlane::jacobian2: the boolean of try_inverse_mut is dropped
Jacobian2Of(p, invariant) ==
  IF invariant \notin {"VX", "VY", "VZ"}
    THEN [res |-> "CustomError", call |-> "jacobian2"]
    ELSE [res |-> "Ok", call |-> "jacobian2", of |-> Matrix2(p, invariant),
          jac |-> TryInverseMut(Matrix2(p, invariant)).jac]

\* jacobian is called
Jacobian ==
  /\ jac_result = NoJac
  /\ jac_result' = JacobianOf(partials)
  /\ UNCHANGED <<partials, jac_dv>>
  /\ UNCHANGED targeter_vars
  /\ UNCHANGED new_vars
  /\ UNCHANGED prop_vars

\* jacobian2 is called
Jacobian2 ==
  /\ jac_result = NoJac
  /\ \E invariant \in StateParameters :
       jac_result' = Jacobian2Of(partials, invariant)
  /\ UNCHANGED <<partials, jac_dv>>
  /\ UNCHANGED targeter_vars
  /\ UNCHANGED new_vars
  /\ UNCHANGED prop_vars

\* the residuals the targeter multiplies the Jacobian by
Residuals(n) ==
  {[i \in 1..n |-> 1], [i \in 1..n |-> IF i = 1 THEN 1 ELSE 0]}

\* the product of a matrix and a vector
MatVec(m, v) ==
  [i \in 1..Len(m) |->
     m[i][1] * v[1] + m[i][2] * v[2]
       + (IF Len(m) = 3 THEN m[i][3] * v[3] ELSE 0)]

\* the targeter computes the delta-v: the matrix returned times the residual
ComputeDv ==
  /\ jac_result.res = "Ok"
  /\ jac_dv = NoDv
  /\ \E err \in Residuals(Len(jac_result.of)) :
       jac_dv' = [res |-> "Ok", err |-> err,
                  num |-> MatVec(jac_result.jac.num, err),
                  den |-> jac_result.jac.den]
  /\ UNCHANGED <<partials, jac_result>>
  /\ UNCHANGED targeter_vars
  /\ UNCHANGED new_vars
  /\ UNCHANGED prop_vars

JacobianInit ==
  /\ partials = [b_t |-> <<0, 0, 0>>, b_r |-> <<0, 0, 0>>,
                 ltof_s |-> <<0, 0, 0>>]
  /\ jac_result = NoJac
  /\ jac_dv = NoDv

-----------------------------------------------------------------------------
(* The specifications *)

PropInit ==
  /\ state = [epoch |-> 0, fin |-> FALSE]
  /\ step_size \in 1..MaxInitStep
  /\ fixed_step \in BOOLEAN
  /\ details = [step |-> 0, error |-> 0, attempts |-> 1]
  /\ pc = "idle"
  /\ api = "none"
  /\ duration = 0
  /\ stop_time = 0
  /\ backprop = FALSE
  /\ final = FALSE
  /\ prev_step_size = 0
  /\ prev_step_kind = FALSE
  /\ h = 0
  /\ has_chan = FALSE
  /\ rx_alive = FALSE
  /\ chan = <<>>
  /\ result = "none"
  /\ dyn_fails \in BOOLEAN
  /\ accepted = <<>>
  /\ sent = <<>>
  /\ finalize_calls = 0
  /\ step_calls = 0
  /\ entry = [state |-> state, step_size |-> step_size,
              fixed_step |-> fixed_step, details |-> details]
  /\ reg_stored = 0
  /\ last_adaptive = FALSE
  /\ rejected = 0
  /\ before_step = [state |-> state, step_size |-> step_size,
                     fixed_step |-> fixed_step, error |-> 0, sent |-> <<>>]
  /\ eom_failed = FALSE
  /\ trial_err = 0
  /\ tpc = "off"
  /\ start_state = state
  /\ end_state = state
  /\ window_states = <<>>
  /\ buckets = <<>>
  /\ traj_entry = [step_size |-> step_size, fixed_step |-> fixed_step]
  /\ rpc = "off"
  /\ bad_fits = {}
  /\ splines = <<>>
  /\ segments = <<>>
  /\ trigger = 0
  /\ events = <<>>
  /\ ev_result = "none"
  /\ ev_state = [epoch |-> 0]
  /\ ev_error = <<0, 0>>

Init == PropInit /\ BPlaneInit /\ NewInit /\ JacobianInit

Next ==
  \/ Call
  \/ Loop
  \/ Trial
  \/ TrajCollect
  \/ Recv
  \/ RecvClosed
  \/ TailSend
  \/ Collect
  \/ Assemble
  \/ UntilNthEvent

Spec == Init /\ [][Next]_vars

\* the driver and the bucketer are sequential loops: a step that can be taken
\* is taken
FairSpec == Spec /\ WF_vars(Next)

\* the targeter alone, on an idle propagator
BPlaneStart ==
  /\ PropInit
  /\ step_size = 1
  /\ ~fixed_step
  /\ ~dyn_fails
  /\ BPlaneInit
  /\ NewInit
  /\ JacobianInit

BPlaneNext ==
  \/ Achieve
  \/ Iterate
  \/ EndKind

BPlaneSpec == BPlaneStart /\ [][BPlaneNext]_vars

\* BPlane::new alone, on every orbit of Orbits
BPlaneNewStart ==
  /\ PropInit
  /\ step_size = 1
  /\ ~fixed_step
  /\ ~dyn_fails
  /\ BPlaneInit
  /\ orbit_real \in Orbits
  /\ new_result = NoResult
  /\ JacobianInit

BPlaneNewNext == NewBPlane

BPlaneNewSpec == BPlaneNewStart /\ [][BPlaneNewNext]_vars

\* jacobian, jacobian2 and the product with the residual alone, on every
\* B-Plane of Partials
JacobianStart ==
  /\ PropInit
  /\ step_size = 1
  /\ ~fixed_step
  /\ ~dyn_fails
  /\ BPlaneInit
  /\ NewInit
  /\ partials \in Partials
  /\ jac_result = NoJac
  /\ jac_dv = NoDv

JacobianNext ==
  \/ Jacobian
  \/ Jacobian2
  \/ ComputeDv

JacobianSpec == JacobianStart /\ [][JacobianNext]_vars

-----------------------------------------------------------------------------
(* Properties *)

Last(s) == s[Len(s)]

Range(s) == {s[i] : i \in 1..Len(s)}

\* the driver returned Ok from a call with a non-zero duration
ReturnedOk == pc = "done" /\ result = "Ok" /\ duration # 0

\* the epoch of the state before the last accepted step
EpochBeforeLastStep ==
  IF Len(accepted) >= 2 THEN accepted[Len(accepted) - 1].epoch
                        ELSE entry.state.epoch

\* C1: whenever for_duration / until_epoch returns Ok for a non-zero duration,
\* the epoch of the state is exactly start + duration; the driver ended with
\* one fixed step of exactly the remaining duration, or returned without a
\* step because a regular step landed on the stop epoch.
C1_StopEpochExact ==
  ReturnedOk =>
    /\ state.epoch = entry.state.epoch + duration
    /\ IF final
         THEN /\ ~last_adaptive
              /\ details.step = stop_time - EpochBeforeLastStep
         ELSE /\ accepted # <<>>
              /\ Last(accepted).epoch = stop_time

C1_Witness ==
  /\ ReturnedOk
  /\ duration < 0
  /\ ~entry.fixed_step
  /\ final
  /\ Len(accepted) >= 3

\* C2: after every accepted step taken under adaptive control, forward or
\* backward and whatever step size was stored, details.error <= tolerance or
\* the step used equals min_step or details.attempts equals max_attempts.
C2_AcceptedStepControlled ==
  (/\ accepted # <<>>
   /\ last_adaptive
   /\ pc = "loop" \/ (pc = "done" /\ result = "Ok"))
  => \/ details.error <= tolerance
     \/ details.step = min_step
     \/ details.attempts = max_attempts

\* C6: with a publish channel whose receiver is alive, the states sent are
\* exactly the accepted post-step states, once each and in order, the final
\* exact-remainder step included; nothing is sent for a failed step, nor when
\* the duration is zero or no channel was given.
C6_ChannelCarriesAcceptedStates ==
  /\ (has_chan /\ rx_alive) => sent = accepted
  /\ ~has_chan => sent = <<>>
  /\ duration = 0 => sent = <<>>

C6_Witness ==
  /\ api = "with_channel"
  /\ rx_alive
  /\ ReturnedOk
  /\ final
  /\ Len(sent) >= 3
  /\ Last(sent) = state

\* C7: within one propagation call the epochs of the emitted states are
\* strictly increasing when the duration is positive and strictly decreasing
\* when it is negative.
C7_EmittedEpochsStrictlyMonotone ==
  \A i \in 1..(Len(sent) - 1) :
    IF duration > 0 THEN sent[i].epoch < sent[i + 1].epoch
                    ELSE sent[i].epoch > sent[i + 1].epoch

\* C9: after for_duration returns Ok for a non-zero duration the step
\* configuration is restored: step_size is positive as at entry, fixed_step is
\* as at entry, and the stored step is the one in effect before the final
\* exact-remainder step, not the remainder.
C9_StepConfigRestored ==
  ReturnedOk =>
    /\ fixed_step = entry.fixed_step
    /\ entry.step_size > 0
    /\ step_size > 0
    /\ step_size = IF duration < 0 THEN -reg_stored ELSE reg_stored

C9_Witness ==
  /\ ReturnedOk
  /\ duration < 0
  /\ ~entry.fixed_step
  /\ final
  /\ Len(accepted) >= 2
  /\ step_size # entry.step_size
  /\ step_size # Abs(details.step)

\* C10: for_duration(0) returns Ok and changes nothing: no step, no call of
\* the finalize hook, nothing sent, and state, details, step_size and
\* fixed_step as before the call.
C10_ZeroDurationIsNoOp ==
  (pc = "done" /\ duration = 0 /\ tpc \in {"off", "prop1", "prop2"}) =>
    /\ result = "Ok"
    /\ state = entry.state
    /\ details = entry.details
    /\ step_size = entry.step_size
    /\ fixed_step = entry.fixed_step
    /\ step_calls = 0
    /\ finalize_calls = 0
    /\ sent = <<>>
    /\ chan = <<>>

C10_Witness ==
  /\ pc = "done"
  /\ duration = 0
  /\ api = "with_channel"
  /\ rx_alive
  /\ dyn_fails

\* C4: any two consecutive buckets handed to interpolation share exactly one
\* state: the last state of the earlier is the first state of the later, and
\* no other state belongs to both (checked on forward runs, whose states have
\* distinct epochs).
C4_ConsecutiveBucketsShareOneState ==
  duration > 0 =>
  \A i \in 1..(Len(buckets) - 1) :
    /\ Last(buckets[i]) = Head(buckets[i + 1])
    /\ Range(buckets[i]) \cap Range(buckets[i + 1]) = {Last(buckets[i])}

\* C5: a forward for_duration_with_traj that returns Ok published buckets that
\* cover the run: the first starts with the start state, the last ends with
\* the final state at start + duration, and every emitted state is in a bucket.
C5_BucketsCoverRun ==
  (tpc = "done" /\ duration > 0) =>
    /\ buckets # <<>>
    /\ Head(Head(buckets)) = start_state
    /\ Last(Last(buckets)) = Last(accepted)
    /\ Last(Last(buckets)).epoch = start_state.epoch + duration
    /\ Last(Last(buckets)).epoch = end_state.epoch
    /\ \A i \in 1..Len(accepted) :
         \E b \in 1..Len(buckets) : accepted[i] \in Range(buckets[b])

C5_Witness ==
  /\ tpc = "done"
  /\ duration > 0
  /\ Len(buckets) >= 3
  /\ ~entry.fixed_step

\* C8: every call of for_duration_with_traj with a non-zero duration
\* eventually returns when the dynamics never fail (checked on the calls with a
\* positive duration).
C8_TrajEventuallyReturns ==
  (api = "with_traj" /\ ~dyn_fails /\ duration > 0) ~> (tpc = "done")

\* C3: whenever achieve_b_plane returns Ok, the delta-v returned is the one
\* accumulated by a search kind whose inner loop ended through the convergence
\* test; a delta-v accumulated by an abandoned kind is never returned.
C3_ReturnedDvConverged ==
  (bp_pc = "done" /\ bp_result = "Ok") => (min_kind # -1 /\ min_converged)

\* C11: with a channel whose receiver was dropped the propagation is not
\* aborted: nothing is queued, every step call is accepted as without a
\* channel, no error is returned unless the dynamics fail, and an Ok return
\* leaves the state of the last accepted step, at start + duration.
C11_DroppedReceiverDoesNotAbort ==
  (api = "with_channel" /\ ~rx_alive) =>
    /\ sent = <<>>
    /\ chan = <<>>
    /\ (pc = "done" /\ ~dyn_fails) => result = "Ok"
    /\ (pc \in {"loop", "done"} /\ ~dyn_fails) => Len(accepted) = step_calls
    /\ ReturnedOk =>
         /\ state = Last(accepted)
         /\ state.epoch = entry.state.epoch + duration

C11_Witness ==
  /\ api = "with_channel"
  /\ ~rx_alive
  /\ ~dyn_fails
  /\ ReturnedOk
  /\ Len(accepted) >= 3

C13_NoShortBucket ==
  \A i \in 1..Len(buckets) : Len(buckets[i]) >= items_per_segments

\* the kinds achieve_b_plane is to attempt for the target it was given
ExpectedKinds ==
  IF LtofTargetSet(given_target) THEN <<3>> ELSE <<0, 1, 2, 3>>

\* C14: achieve_b_plane attempts the search kinds in a fixed sequence, each
\* once: kind 3 alone when the LTOF target is set, else kinds 0, 1, 2, 3 in
\* that order; the kinds attempted so far are the first ones of that sequence,
\* all of them once it returned Ok, and kind 3 is attempted also after every
\* 2x2 kind was abandoned.
C14_KindsInFixedSequence ==
  bp_pc # "idle" =>
    /\ kinds_tried # <<>>
    /\ Len(kinds_tried) <= Len(ExpectedKinds)
    /\ kinds_tried = SubSeq(ExpectedKinds, 1, Len(kinds_tried))
    /\ cur_search = Last(kinds_tried)
    /\ bp_result = "Ok" => kinds_tried = ExpectedKinds
    /\ ({0, 1, 2} \subseteq abandoned /\ ~(bp_pc = "endkind" /\ cur_search = 2))
         => cur_search = 3

C14_Witness ==
  /\ bp_pc = "loop"
  /\ cur_search = 3
  /\ kinds_tried = <<0, 1, 2, 3>>
  /\ abandoned = {0, 1, 2}
  /\ attempt_no = 0

\* an error of the search itself, as opposed to an error of BPlane::new
SearchErrors == {"CorrectionIneffective", "MaxIterReached"}

\* C15: when the LTOF target is set, the search goes on only while each
\* residual norm is strictly below the previous one and returns
\* CorrectionIneffective at the first residual that is not, it returns
\* MaxIterReached once the attempt counter exceeds max_iter, and it returns Ok
\* only on convergence; when the LTOF target is not set, neither of the two
\* errors is ever returned.
C15_SearchErrorsOnlyWithLtof ==
  /\ [](LET set == LtofTargetSet(given_target)
        IN /\ ~set => bp_result \notin SearchErrors
           /\ bp_result = "CorrectionIneffective"
                => /\ set
                   /\ b_plane_err >= prev_b_plane_err
                   /\ attempt_no <= max_iter
           /\ bp_result = "MaxIterReached"
                => set /\ attempt_no = max_iter + 1
           /\ (set /\ bp_result = "Ok") => converged /\ attempt_no <= max_iter
           /\ (set /\ bp_pc = "loop")
                => /\ attempt_no <= max_iter + 1
                   /\ attempt_no > 0 => b_plane_err = prev_b_plane_err)
  /\ [][LtofTargetSet(given_target) /\ bp_pc = "loop"
          => /\ bp_pc' = "loop" => prev_b_plane_err' < prev_b_plane_err
             /\ attempt_no > max_iter => bp_result' = "MaxIterReached"
             /\ (bp_pc' = "done" /\ attempt_no <= max_iter
                   /\ bp_result' # "NotHyperbolic")
                  => /\ bp_result' = "CorrectionIneffective"
                     /\ b_plane_err' >= prev_b_plane_err]_vars

\* the LTOF target is set and ten corrections, each with a smaller residual
\* than the one before, have not converged
C15_Witness ==
  /\ LtofTargetSet(given_target)
  /\ bp_result = "MaxIterReached"
  /\ attempt_no = max_iter + 1
  /\ b_plane_err = prev_b_plane_err

\* C16: when the LTOF target is not set and the orbit given is hyperbolic,
\* achieve_b_plane never returns from inside a 2x2 kind (0, 1 or 2): a kind
\* whose corrected orbit stops being hyperbolic, or that runs out of
\* iterations, is abandoned and the next kind is attempted.
C16_NoErrorFrom2x2Kind ==
  (~LtofTargetSet(given_target) /\ orbit_bplane.hyp /\ cur_search \in {0, 1, 2})
    => bp_pc # "done"

\* the latest call of derive returned Ok
DeriveReturnedOk == step_calls > 0 /\ pc \in {"loop", "done"} /\ ~eom_failed

\* C17: a call of derive rejects fewer than max_attempts trials,
\* details.attempts never exceeds max_attempts, and an adaptive trial
\* evaluated with details.attempts = max_attempts is accepted whatever its
\* error: the state advances by the trial's step and, unless
\* dynamics.finally fails, no error is returned.
C17_RetryBudgetNotAnError ==
  /\ [](details.attempts <= max_attempts /\ rejected < max_attempts)
  /\ [][(pc = "derive" /\ ~fixed_step /\ details.attempts = max_attempts
           /\ ~eom_failed')
          => /\ pc' \in {"loop", "done"}
             /\ state'.epoch = state.epoch + ToDuration(h)
             /\ details'.attempts = max_attempts
             /\ rejected' = max_attempts - 1
             /\ state'.fin => result' # "Err"]_vars

\* the last trial the budget allows was accepted with an error above the
\* tolerance and a step above min_step
C17_Witness ==
  /\ DeriveReturnedOk
  /\ ~before_step.fixed_step
  /\ pc = "loop"
  /\ details.attempts = max_attempts
  /\ rejected = max_attempts - 1
  /\ details.error > tolerance
  /\ h > ToSeconds(min_step)

\* C18: once dynamics.eom has failed in a trial, the driver has returned
\* Err, the state and the stored step_size are those single_step was called
\* with, and no further step is taken and no further state is sent.
C18_EomFailureStopsDriver ==
  /\ [](eom_failed
         => /\ pc = "done"
            /\ result = "Err"
            /\ state = before_step.state
            /\ step_size = before_step.step_size
            /\ sent = before_step.sent)
  /\ [][eom_failed => UNCHANGED <<state, step_size, sent, chan, accepted,
                                  step_calls>>]_vars

\* eom failed in the second trial of a step, after a state had been sent
C18_Witness ==
  /\ eom_failed
  /\ rejected > 0
  /\ sent # <<>>
  /\ result = "Err"

\* C19: after a step taken in fixed-step mode, details.step is the step
\* single_step was called with, details.attempts is 1, no trial was rejected,
\* details.error is what it was before the call, and after a regular step the
\* stored step_size is unchanged and the epoch has advanced by it.
C19_FixedStepAcceptedAsConfigured ==
  (DeriveReturnedOk /\ before_step.fixed_step)
    => /\ details.step = before_step.step_size
       /\ details.attempts = 1
       /\ rejected = 0
       /\ details.error = before_step.error
       /\ (pc = "loop" /\ ~final)
            => /\ step_size = before_step.step_size
               /\ state.epoch = before_step.state.epoch + before_step.step_size

\* a fixed step was taken after an adaptive one had set details.error
C19_Witness ==
  /\ DeriveReturnedOk
  /\ before_step.fixed_step
  /\ state.fin
  /\ step_calls > 1
  /\ details.error > 0
  /\ details.step = before_step.step_size

\* C20: after an accepted adaptive step, details.step is the step h of the
\* accepted trial and the amount by which the epoch advanced, details.error
\* is the error estimate of that trial, and details.attempts is 1 plus the
\* number of trials rejected within the call.
C20_DetailsDescribeAcceptedTrial ==
  (DeriveReturnedOk /\ ~before_step.fixed_step)
    => /\ ToSeconds(details.step) = h
       /\ state.epoch = before_step.state.epoch + details.step
       /\ details.error = trial_err
       /\ details.attempts = 1 + rejected

C22_FinalizeOnceAtStartAndPerStep ==
  LET ran == pc # "idle" /\ duration # 0
  IN /\ (ran /\ step_calls > 0) => finalize_calls >= 1
     /\ (ran /\ finalize_calls \in 1..(MaxEmit - 1))
          => finalize_calls = 1 + Len(accepted)
     /\ ran => \A i \in 1..Len(accepted) : accepted[i].fin
     /\ ran => \A i \in 1..Len(sent) : sent[i].fin
     /\ (ran /\ pc = "done" /\ result = "Ok") => state.fin

\* a propagation with a live channel returned after three steps
C22_Witness ==
  /\ pc = "done"
  /\ result = "Ok"
  /\ duration # 0
  /\ has_chan /\ rx_alive
  /\ Len(accepted) = 3
  /\ finalize_calls = 4
  /\ Len(sent) = 3
  /\ state.fin

\* C23: BPlane::new returns the error NotHyperbolic exactly when the
\* eccentricity of the orbit is at most 1, the parabolic orbit included, and
\* otherwise returns a B-Plane with the frame and the epoch of the orbit.
C23_NotHyperbolicIffEccAtMostOne ==
  new_result # NoResult
    => /\ (new_result.kind = "Err") <=> (orbit_real.ecc <= EccOne)
       /\ new_result.kind = "Err" => new_result.error = "NotHyperbolic"
       /\ orbit_real.ecc > EccOne
            => /\ new_result.kind = "Ok"
               /\ new_result.frame = orbit_real.frame
               /\ new_result.epoch = orbit_real.dt

\* BPlane::new was called on a parabolic orbit
C23_Witness ==
  /\ orbit_real.ecc = EccOne
  /\ orbit_real.frame = "Luna"
  /\ new_result.kind = "Err"

\* C24: after an accepted adaptive step of a forward propagation, the step
\* size stored for the next call lies within [min_step, max_step].
C24_StoredStepWithinBounds ==
  (DeriveReturnedOk /\ ~before_step.fixed_step /\ duration > 0 /\ pc = "loop")
    => (min_step <= step_size /\ step_size <= max_step)

\* C25: in a backward propagation that starts with a stored step of
\* magnitude at most max_step, the magnitude of the stored step size and of
\* every accepted step is at most max_step.
C25_BackwardStepBounded ==
  (pc # "idle" /\ duration < 0 /\ Abs(entry.step_size) <= max_step)
    => /\ Abs(step_size) <= max_step
       /\ DeriveReturnedOk => Abs(details.step) <= max_step

\* C26: when for_duration returns an error, the step configuration is the
\* one of the entry: fixed_step has its value at entry and the stored
\* step_size has the (positive) sign it had at entry.
C26_ConfigurationRestoredOnError ==
  (pc = "done" /\ result = "Err" /\ duration # 0)
    => /\ fixed_step = entry.fixed_step
       /\ entry.step_size > 0 => step_size > 0

\* C27: when for_duration_with_traj has returned Ok from a forward
\* propagation, fixed_step has the value it had when the method was called.
C27_TrajKeepsStepMode ==
  (api = "with_traj" /\ rpc = "Ok" /\ duration > 0)
    => fixed_step = traj_entry.fixed_step

Max(a, b) == IF a > b THEN a ELSE b

\* C28: during a for_duration the epoch of the state, and of every state a
\* step returned, lies between the start epoch and the stop epoch, both
\* included, forward and backward.
C28_NoOvershoot ==
  LET start == entry.state.epoch
      lo == Min(start, start + duration)
      hi == Max(start, start + duration)
  IN pc # "idle"
       => /\ lo <= state.epoch /\ state.epoch <= hi
          /\ \A i \in 1..Len(accepted) :
               lo <= accepted[i].epoch /\ accepted[i].epoch <= hi

\* C29: within a call of derive on a positive stored step in adaptive mode,
\* a rejection leaves the state alone, adds one to details.attempts and
\* makes the trial step strictly smaller but not smaller than min_step; as
\* long as no trial is accepted the stored step_size and the state are those
\* of the call.
C29_RejectionShrinksTrialStep ==
  /\ []((pc = "derive" /\ before_step.step_size > 0)
          => /\ step_size = before_step.step_size
             /\ state = before_step.state)
  /\ [][(pc = "derive" /\ pc' = "derive" /\ before_step.step_size > 0)
          => /\ ~fixed_step
             /\ state' = state
             /\ details'.attempts = details.attempts + 1
             /\ h' < h
             /\ h' >= ToSeconds(min_step)
             /\ step_size' = step_size]_vars

\* two trials of a step were rejected and the third trial step is still
\* above min_step
C29_Witness ==
  /\ pc = "derive"
  /\ before_step.step_size > 0
  /\ rejected = 2
  /\ details.attempts = 3
  /\ h > ToSeconds(min_step)
  /\ h < ToSeconds(before_step.step_size)

\* C30: within a search kind at most max_iter (10) corrections are applied.
C30_AtMostTenCorrections ==
  bp_pc # "idle" => attempt_no <= max_iter

\* C31: once a search kind has ended, min_total_dv is the accumulated delta-v
\* of smallest norm among the kinds that ended so far, converged or abandoned,
\* and among kinds of equal norm it is the earliest one; achieve_b_plane
\* returns Ok only after every attempted kind has ended, so the delta-v
\* returned is the smallest of all attempted kinds and the 3x3 result is
\* returned only when its norm is strictly below every 2x2 result.
C31_ReturnsSmallestDvEarliestOnTies ==
  /\ finished # <<>> =>
       \E i \in 1..Len(finished) :
         /\ min_total_dv = finished[i].total_dv
         /\ min_kind = finished[i].kind
         /\ \A j \in 1..Len(finished) :
              NormSq(finished[j].total_dv) >= NormSq(min_total_dv)
         /\ \A j \in 1..(i - 1) :
              NormSq(finished[j].total_dv) > NormSq(min_total_dv)
  /\ (bp_pc = "done" /\ bp_result = "Ok") =>
       /\ Len(finished) = Len(kinds_tried)
       /\ \A k \in 1..Len(finished) : finished[k].kind = kinds_tried[k]

\* the first 2x2 kind is returned although the second one, which was
\* abandoned, reached the same norm, and the 3x3 kind a larger one
C31_Witness ==
  /\ bp_pc = "done"
  /\ bp_result = "Ok"
  /\ Len(finished) = 4
  /\ min_kind = 0
  /\ NormSq(finished[2].total_dv) = NormSq(min_total_dv)
  /\ 1 \in abandoned
  /\ NormSq(finished[4].total_dv) > NormSq(min_total_dv)

\* C32: when the LTOF target is not set, the LTOF target of the 3x3 kind is
\* finite and was recorded by a 2x2 kind that converged, the one of smallest
\* delta-v norm; it is never the placeholder (infinity) of a kind that was
\* abandoned.
C32_SeedLtofFromConverged2x2 ==
  (~LtofTargetSet(given_target) /\ bp_pc # "idle" /\ cur_search = 3) =>
    /\ target.ltof_s < Infinity
    /\ \E i \in 1..3 :
         /\ finished[i].kind \notin abandoned
         /\ \A j \in 1..3 :
              NormSq(finished[j].total_dv) >= NormSq(finished[i].total_dv)

\* the velocity component a 2x2 kind holds invariant, as an index of
\* (vx, vy, vz)
HeldAxis(kind) == kind + 1

\* the two other components, in axis order
VariedAxes(kind) ==
  <<IF HeldAxis(kind) = 1 THEN 2 ELSE 1, IF HeldAxis(kind) = 3 THEN 2 ELSE 3>>

\* C33: in a 2x2 kind the component held invariant (vx for kind 0, vy for
\* kind 1, vz for kind 2) is never changed: that component of the working
\* orbit is the initial orbit's and that component of total_dv is 0; each
\* correction adds dv[0] to the first and dv[1] to the second of the two other
\* components, in axis order, of both the working orbit and total_dv; and
\* every kind starts from the initial orbit with total_dv = 0.
C33_HeldComponentUntouched ==
  /\ []((bp_pc \in {"loop", "endkind"} /\ cur_search \in 0..2) =>
          /\ total_dv[HeldAxis(cur_search)] = 0
          /\ real_orbit[HeldAxis(cur_search)] = 0)
  /\ [][(bp_pc = "loop" /\ cur_search \in 0..2 /\ attempt_no' = attempt_no + 1)
          => \E dv2 \in Corrections2 :
               LET a == VariedAxes(cur_search)[1]
                   b == VariedAxes(cur_search)[2]
               IN /\ total_dv'[a] = total_dv[a] + dv2[1]
                  /\ total_dv'[b] = total_dv[b] + dv2[2]
                  /\ real_orbit'[a] = real_orbit[a] + dv2[1]
                  /\ real_orbit'[b] = real_orbit[b] + dv2[2]]_vars
  /\ [][(kinds_tried' # kinds_tried)
          => /\ total_dv' = Zero3
             /\ real_orbit' = Zero3
             /\ attempt_no' = 0]_vars

\* the second 2x2 kind has applied three corrections to vx and vz after the
\* first kind ended with a delta-v on vy and vz
C33_Witness ==
  /\ bp_pc = "loop"
  /\ cur_search = 1
  /\ attempt_no = 3
  /\ total_dv = <<-1, 0, -2>>
  /\ real_orbit = total_dv
  /\ finished[1].total_dv = <<0, 1, 2>>

\* the product of two square matrices of dimension 2 or 3
MatMul(a, b) ==
  [i \in 1..Len(a) |->
     [j \in 1..Len(a) |->
        a[i][1] * b[1][j] + a[i][2] * b[2][j]
          + (IF Len(a) = 3 THEN a[i][3] * b[3][j] ELSE 0)]]

Scale(c, m) == [i \in 1..Len(m) |-> [j \in 1..Len(m) |-> c * m[i][j]]]

\* jac (num / den) is the inverse of m or, when m has none, a generalised
\* inverse of it: m * jac * m = m and jac * m * jac = jac
IsGeneralisedInverse(m, jac) ==
  /\ MatMul(MatMul(m, jac.num), m) = Scale(jac.den, m)
  /\ MatMul(MatMul(jac.num, m), jac.num) = Scale(jac.den, jac.num)

\* C34: jacobian, and jacobian2 for a valid invariant, never hand back the
\* matrix un-inverted as if it were the inverse: what they return as Ok is
\* the inverse or, when the matrix is not invertible, a pseudo-inverse
\* (otherwise Singular is signalled), so the delta-v of the targeter is never
\* the product of the residual and a matrix that was not inverted.
C34_JacobianIsInvertedOrSingular ==
  /\ jac_result.res = "Ok" =>
       IsGeneralisedInverse(jac_result.of, jac_result.jac)
  /\ jac_dv.res = "Ok" =>
       \/ Det(jac_result.of) # 0
       \/ jac_dv.num # MatVec(jac_result.of, jac_dv.err)
       \/ IsGeneralisedInverse(jac_result.of, jac_result.jac)

\* the producer of for_duration_with_traj has emitted a state and has not
\* returned yet
ProducerRunning ==
  /\ api = "with_traj"
  /\ tpc \in {"prop1", "prop2"}
  /\ pc \in {"loop", "derive"}
  /\ chan # <<>>

\* the bucketer only runs once the producer has returned, and the first
\* recv finds every state of the run waiting on the channel
BucketingAfterPropagation ==
  tpc \in {"recv1", "recv2"} =>
    /\ pc = "done"
    /\ (window_states = <<start_state>> /\ buckets = <<>>) => chan = sent

\* C35: in for_duration_with_traj the propagation and the bucketing run
\* concurrently: while the producer is still running, the bucketer can
\* receive a state that waits on the channel (and so publish a bucket) before
\* the producer has emitted its last state.
C35_BucketerRunsDuringPropagation ==
  ProducerRunning => ENABLED Recv

====
